---- MODULE Spec2Model ----
(***************************************************************************)
(* Model of cwutils.datasets._base: _return_resource, _infer_dialect,      *)
(* _convert_to_dataframe, load_descr and the pipeline load_csv_data that   *)
(* chains them.  One behaviour of the model is one call of load_csv_data:  *)
(* Init draws the arguments, each action is one statement group of the     *)
(* function body, in program order.                                        *)
(*                                                                         *)
(* Python values are tagged with their type in a field `kind`.  Text is a  *)
(* sequence of one-character strings, a file is a sequence of lines.       *)
(* Exceptions are named by their Python class.                             *)
(***************************************************************************)
EXTENDS Integers, Sequences, FiniteSets, TLC

VARIABLES
    data_file_name,     \* positional argument
    target,             \* str | int | None
    data_module,        \* str | module (or a value of a wrong type)
    descr_file_name,    \* str | None
    descr_module,       \* str
    separate_target,    \* bool
    encoding,           \* str
    data_path,          \* local of load_csv_data (line 128)
    dialect,            \* local of load_csv_data (lines 129-130)
    df,                 \* local of load_csv_data (line 132)
    target_series,      \* local of load_csv_data (line 142)
    descr,              \* local of load_csv_data (lines 147, 160)
    pc,                 \* position in load_csv_data
    result,             \* the returned values, in order; <<>> while none
    error,              \* the exception that left load_csv_data, or "none"
    log,                \* history: the steps executed, with their outcome
    sniff_encoding      \* history: the encoding _infer_dialect opened the file with

vars == <<data_file_name, target, data_module, descr_file_name, descr_module,
          separate_target, encoding, data_path, dialect, df, target_series,
          descr, pc, result, error, log, sniff_encoding>>

args == <<data_file_name, target, data_module, descr_file_name, descr_module,
          separate_target, encoding>>

(***************************************************************************)
(* Bounds                                                                  *)
(***************************************************************************)
\* target indices are drawn from -1 .. MaxIndex
MaxIndex == 4

(***************************************************************************)
(* Module constants                                                        *)
(***************************************************************************)
DATA_MODULE == "cwutils.datasets.data"
DESCR_MODULE == "cwutils.datasets.descr"

(***************************************************************************)
(* The environment: installed packages and their resources.                *)
(***************************************************************************)
MISSING_MODULE == "thismoduledoesnotexist"

InstalledModules == {DATA_MODULE, DESCR_MODULE}

\* A non-ASCII byte (0xE9): valid latin-1, invalid as UTF-8 on its own.
NonAscii == "E9"

IrisCsv == << <<"s", ",", "t", "v", ",", "r">>,
              <<"1", ",", "2", ",", "3">>,
              <<"4", ",", "5", ",", "6">> >>

SemiCsv == << <<"x", ";", "y">>,
              <<"7", ";", "8">>,
              <<"9", ";", "0">> >>

LatinCsv == << <<"s", ",", NonAscii>>,
               <<"1", ",", "2">> >>

RaggedCsv == << <<"s", ",", "t">>,
                <<"1", ",", "2">>,
                <<"3", ",", "4", ",", "5">> >>

EmptyCsv == << >>

IrisRst == << <<"I", "r", "i", "s", " ", "d", "a", "t", "a">> >>

RegularFiles ==
    { <<DATA_MODULE, "iris.csv">>, <<DATA_MODULE, "semi.csv">>,
      <<DATA_MODULE, "latin.csv">>, <<DATA_MODULE, "ragged.csv">>,
      <<DATA_MODULE, "empty.csv">>, <<DESCR_MODULE, "iris.rst">> }

Directories == { <<DATA_MODULE, "subdir">>, <<DESCR_MODULE, "subdir">> }

SpecialFiles == { <<DATA_MODULE, "fifo">> }

FileNames == {"iris.csv", "semi.csv", "latin.csv", "ragged.csv", "empty.csv",
              "iris.rst", "subdir", "fifo", "thisfiledoesnotexist.csv"}

\* Traversable.exists / os.path.isdir / Traversable.is_file
Exists(path) == path \in RegularFiles \cup Directories \cup SpecialFiles
IsDir(path) == path \in Directories
IsFile(path) == path \in RegularFiles

FileBytes(path) ==
    CASE path = <<DATA_MODULE, "iris.csv">> -> IrisCsv
      [] path = <<DATA_MODULE, "semi.csv">> -> SemiCsv
      [] path = <<DATA_MODULE, "latin.csv">> -> LatinCsv
      [] path = <<DATA_MODULE, "ragged.csv">> -> RaggedCsv
      [] path = <<DATA_MODULE, "empty.csv">> -> EmptyCsv
      [] path = <<DESCR_MODULE, "iris.rst">> -> IrisRst
      [] OTHER -> << >>

(***************************************************************************)
(* Python values                                                           *)
(***************************************************************************)
PyNone == [kind |-> "None", str |-> << >>, int |-> 0]
PyStr(s) == [kind |-> "str", str |-> s, int |-> 0]
PyInt(i) == [kind |-> "int", str |-> << >>, int |-> i]
\* a value of a type none of the functions accepts (e.g. a py.path.local)
PyOther(s) == [kind |-> "other", str |-> s, int |-> 0]
\* a loaded module object
PyModule(s) == [kind |-> "module", str |-> s, int |-> 0]

\* a truth test written `is not None`
TruthyNotNone(t) == t.kind # "None"

\* bool(target), as `if target:` evaluates it
Truthy(t) ==
    CASE t.kind = "None" -> FALSE
      [] t.kind = "str" -> t.str # << >>
      [] t.kind = "int" -> t.int # 0

Range(s) == {s[i] : i \in 1..Len(s)}

Ok(v) == [err |-> "none", val |-> v]
Raise(e) == [err |-> e, val |-> << >>]


(***************************************************************************)
(* _return_resource                                                        *)
(***************************************************************************)
\* importlib.resources.files(data_module) / data_file_name
ResourcePath(m, f) == <<m.str, f.str>>

\* resources.files raises ModuleNotFoundError for a name that cannot be
\* imported; a module object is already imported.
ModuleFound(m) == m.kind = "module" \/ m.str \in InstalledModules

\* _return_resource without the os.path.isdir branch
ReturnResourceNoDirCheck(m, f) ==
    IF m.kind \notin {"str", "module"} THEN Raise("AssertionError")
    ELSE IF f.kind # "str" THEN Raise("AssertionError")
    ELSE IF ~ModuleFound(m) THEN Raise("ModuleNotFoundError")
    ELSE IF ~Exists(ResourcePath(m, f)) THEN Raise("FileNotFoundError")
    ELSE IF ~IsFile(ResourcePath(m, f)) THEN Raise("ValueError")
    ELSE Ok(ResourcePath(m, f))

\* _return_resource without the is_file branch
ReturnResourceNoFileCheck(m, f) ==
    IF m.kind \notin {"str", "module"} THEN Raise("AssertionError")
    ELSE IF f.kind # "str" THEN Raise("AssertionError")
    ELSE IF ~ModuleFound(m) THEN Raise("ModuleNotFoundError")
    ELSE IF ~Exists(ResourcePath(m, f)) THEN Raise("FileNotFoundError")
    ELSE IF IsDir(ResourcePath(m, f)) THEN Raise("IsADirectoryError")
    ELSE Ok(ResourcePath(m, f))

_return_resource(m, f) ==
    IF m.kind \notin {"str", "module"} THEN Raise("AssertionError")
    ELSE IF f.kind # "str" THEN Raise("AssertionError")
    ELSE IF ~ModuleFound(m) THEN Raise("ModuleNotFoundError")
    ELSE IF ~Exists(ResourcePath(m, f)) THEN Raise("FileNotFoundError")
    ELSE IF IsDir(ResourcePath(m, f)) THEN Raise("IsADirectoryError")
    ELSE IF ~IsFile(ResourcePath(m, f)) THEN Raise("ValueError")
    ELSE Ok(ResourcePath(m, f))

(***************************************************************************)
(* Text decoding, as open(..., encoding=e) and read_text(encoding=e) do it *)
(***************************************************************************)
\* latin-1 maps every byte to the code point of the same number; UTF-8
\* rejects a lone non-ASCII byte.
Decodable(bytes, e) ==
    e = "latin-1" \/ \A i \in 1..Len(bytes) : NonAscii \notin Range(bytes[i])

(***************************************************************************)
(* _infer_dialect                                                          *)
(***************************************************************************)
\* the encoding _infer_dialect passes to data_path.open
SnifferEncoding == "utf-8"

\* csv.Sniffer.preferred
Preferred == <<",", "\t", ";", " ", ":">>

\* csv_file.readline()
FirstRow(bytes) == IF bytes = << >> THEN << >> ELSE bytes[1]

\* csv.Sniffer().sniff(first_row) on an unquoted single line: the first
\* preferred delimiter that occurs in it; with none of them, whichever
\* character dominates the line; on an empty line csv.Error.
Sniff(row) ==
    IF row = << >> THEN {Raise("csv.Error")}
    ELSE IF \E k \in 1..Len(Preferred) : Preferred[k] \in Range(row)
    THEN LET k == CHOOSE i \in 1..Len(Preferred) :
                     /\ Preferred[i] \in Range(row)
                     /\ \A j \in 1..(i - 1) : Preferred[j] \notin Range(row)
         IN {Ok([delimiter |-> Preferred[k]])}
    ELSE {Ok([delimiter |-> c]) : c \in Range(row)}

\* the possible outcomes of _infer_dialect(data_path)
_infer_dialect(path) ==
    IF ~Decodable(FileBytes(path), SnifferEncoding)
    THEN {Raise("UnicodeDecodeError")}
    ELSE Sniff(FirstRow(FileBytes(path)))

NoDialect == [delimiter |-> "None"]

\* dialect = None if dialect.delimiter == "," else dialect
NormaliseDialect(d) == IF d.delimiter = "," THEN NoDialect ELSE d

(***************************************************************************)
(* _convert_to_dataframe (pandas.read_csv) and the DataFrame operations    *)
(***************************************************************************)
RECURSIVE Split(_, _)
Split(line, d) ==
    IF \A i \in 1..Len(line) : line[i] # d THEN <<line>>
    ELSE LET k == CHOOSE i \in 1..Len(line) :
                     line[i] = d /\ \A j \in 1..(i - 1) : line[j] # d
         IN <<SubSeq(line, 1, k - 1)>> \o Split(SubSeq(line, k + 1, Len(line)), d)

DataFrame(columns, rows) == [kind |-> "DataFrame", columns |-> columns, rows |-> rows]
Series(name, values) == [kind |-> "Series", name |-> name, values |-> values]
Text(lines) == [kind |-> "str", text |-> lines]

EmptyFrame == DataFrame(<< >>, << >>)
EmptySeries == Series(<< >>, << >>)
EmptyText == Text(<< >>)

\* pd.read_csv(data_path, encoding=encoding, dialect=dialect): the first
\* line is the header, every other line a row; a row longer than the
\* header is a ParserError.  (Files whose header repeats a name, or whose
\* rows are shorter than the header, are not part of the environment.)
_convert_to_dataframe(path, d, e) ==
    LET bytes == FileBytes(path)
        delim == IF d = NoDialect THEN "," ELSE d.delimiter
        cells == [i \in 1..Len(bytes) |-> Split(bytes[i], delim)]
    IN IF ~Decodable(bytes, e) THEN Raise("UnicodeDecodeError")
       ELSE IF bytes = << >> THEN Raise("EmptyDataError")
       ELSE IF \E i \in 2..Len(cells) : Len(cells[i]) > Len(cells[1])
       THEN Raise("ParserError")
       ELSE Ok(DataFrame(cells[1], SubSeq(cells, 2, Len(cells))))

\* position of a label in df.columns (labels read from a header are strings)
ColumnIndex(frame, label) ==
    CHOOSE i \in 1..Len(frame.columns) : frame.columns[i] = label.str

\* target in df.columns
InColumns(frame, label) ==
    label.kind = "str" /\ label.str \in Range(frame.columns)

\* pd.Series(df.loc[:, target]): label-based selection
Loc(frame, label) ==
    IF ~InColumns(frame, label) THEN Raise("KeyError")
    ELSE LET k == ColumnIndex(frame, label)
         IN Ok(Series(label.str, [i \in 1..Len(frame.rows) |-> frame.rows[i][k]]))

RemoveAt(s, k) == SubSeq(s, 1, k - 1) \o SubSeq(s, k + 1, Len(s))

\* a drop that removes the last column whatever the label
DropLast(frame, label) ==
    IF ~InColumns(frame, label) THEN Raise("KeyError")
    ELSE LET k == Len(frame.columns)
         IN Ok(DataFrame(RemoveAt(frame.columns, k),
                         [i \in 1..Len(frame.rows) |-> RemoveAt(frame.rows[i], k)]))

\* df.drop(target, axis=1)
Drop(frame, label) ==
    IF ~InColumns(frame, label) THEN Raise("KeyError")
    ELSE LET k == ColumnIndex(frame, label)
         IN Ok(DataFrame(RemoveAt(frame.columns, k),
                         [i \in 1..Len(frame.rows) |-> RemoveAt(frame.rows[i], k)]))

(***************************************************************************)
(* load_descr                                                              *)
(***************************************************************************)
\* (resources.files(descr_module) / descr_file_name).read_text(encoding="utf-8")
load_descr(name, module) ==
    LET path == <<module.str, name.str>>
    IN IF ~ModuleFound(module) THEN Raise("ModuleNotFoundError")
       ELSE IF ~Exists(path) THEN Raise("FileNotFoundError")
       ELSE IF IsDir(path) THEN Raise("IsADirectoryError")
       ELSE IF ~Decodable(FileBytes(path), "utf-8") THEN Raise("UnicodeDecodeError")
       ELSE Ok(Text(FileBytes(path)))

(***************************************************************************)
(* load_csv_data                                                           *)
(***************************************************************************)
TargetNames == { <<"s">>, <<"t", "v">>, <<"r">>, <<"y">>, <<"z", "z">>, << >> }

Targets ==
    {PyNone} \cup {PyStr(n) : n \in TargetNames}
             \cup {PyInt(i) : i \in (0 - 1)..MaxIndex}

DataModules ==
    {PyStr(DATA_MODULE), PyStr(MISSING_MODULE), PyModule(DATA_MODULE), PyOther(DATA_MODULE)}

DataFileNames ==
    {PyStr(n) : n \in FileNames \ {"iris.rst"}} \cup {PyOther("subdir")}

DescrFileNames ==
    {PyNone} \cup {PyStr(n) : n \in {"iris.rst", "subdir", "thisfiledoesnotexist.csv"}}

DescrModules == {PyStr(DESCR_MODULE), PyStr(MISSING_MODULE)}

Encodings == {"utf-8", "latin-1"}

Init ==
    /\ data_file_name \in DataFileNames
    /\ target \in Targets
    /\ data_module \in DataModules
    /\ descr_file_name \in DescrFileNames
    /\ descr_module \in DescrModules
    /\ separate_target \in BOOLEAN
    /\ encoding \in Encodings
    /\ data_path = << >>
    /\ dialect = NoDialect
    /\ df = EmptyFrame
    /\ target_series = EmptySeries
    /\ descr = EmptyText
    /\ pc = "return_resource"
    /\ result = << >>
    /\ error = "none"
    /\ log = << >>
    /\ sniff_encoding = "none"

Entry(step, outcome) == [step |-> step, outcome |-> outcome]

\* an exception leaves load_csv_data: nothing after it runs
Fail(step, e) ==
    /\ pc' = "failed"
    /\ error' = e
    /\ log' = Append(log, Entry(step, e))
    /\ UNCHANGED result

Pass(step, next) ==
    /\ pc' = next
    /\ log' = Append(log, Entry(step, "ok"))
    /\ UNCHANGED <<result, error>>

\* the description loaded before the target is extracted
AfterValidateDescrFirst ==
    IF descr_file_name # PyNone THEN "load_descr"
    ELSE IF separate_target THEN "extract_target" ELSE "return"

\* the statement that follows the target check (lines 140, 156)
AfterValidate ==
    IF separate_target THEN "extract_target"
    ELSE IF descr_file_name = PyNone THEN "return" ELSE "load_descr"

\* the statement that follows df.loc (line 143)
AfterExtract ==
    IF descr_file_name = PyNone THEN "return" ELSE "load_descr"

\* line 128
ReturnResource ==
    /\ pc = "return_resource"
    /\ LET r == _return_resource(data_module, data_file_name)
       IN IF r.err # "none"
          THEN Fail("resolve", r.err) /\ UNCHANGED data_path
          ELSE Pass("resolve", "infer_dialect") /\ data_path' = r.val
    /\ UNCHANGED <<args, dialect, df, target_series, descr, sniff_encoding>>

\* lines 129-130
InferDialect ==
    /\ pc = "infer_dialect"
    /\ sniff_encoding' = SnifferEncoding
    /\ \E r \in _infer_dialect(data_path) :
          IF r.err # "none"
          THEN Fail("infer", r.err) /\ UNCHANGED dialect
          ELSE Pass("infer", "convert_to_dataframe") /\ dialect' = NormaliseDialect(r.val)
    /\ UNCHANGED <<args, data_path, df, target_series, descr>>

\* line 132
ConvertToDataframe ==
    /\ pc = "convert_to_dataframe"
    /\ LET r == _convert_to_dataframe(data_path, dialect, encoding)
       IN IF r.err # "none"
          THEN Fail("parse", r.err) /\ UNCHANGED df
          ELSE Pass("parse", "validate_target") /\ df' = r.val
    /\ UNCHANGED <<args, data_path, dialect, target_series, descr, sniff_encoding>>

\* lines 134-138
ValidateTarget ==
    /\ pc = "validate_target"
    /\ IF Truthy(target) /\ target.kind = "str" /\ ~InColumns(df, target)
       THEN Fail("validate", "AssertionError")
       ELSE Pass("validate", AfterValidate)
    /\ UNCHANGED <<args, data_path, dialect, df, target_series, descr, sniff_encoding>>

\* lines 141-142, 151-154
ExtractTarget ==
    /\ pc = "extract_target"
    /\ LET r == Loc(df, target)
       IN IF r.err # "none"
          THEN Fail("extract", r.err) /\ UNCHANGED target_series
          ELSE Pass("extract", AfterExtract) /\ target_series' = r.val
    /\ UNCHANGED <<args, data_path, dialect, df, descr, sniff_encoding>>

\* lines 146-149 and 159-162
LoadDescr ==
    /\ pc = "load_descr"
    /\ LET r == load_descr(descr_file_name, descr_module)
       IN IF r.err # "none"
          THEN Fail("descr", r.err) /\ UNCHANGED descr
          ELSE Pass("descr", "return") /\ descr' = r.val
    /\ UNCHANGED <<args, data_path, dialect, df, target_series, sniff_encoding>>

\* the return statements with the description left out of the split result
ReturnValueNoDescr ==
    IF separate_target
    THEN LET features == Drop(df, target)
         IN IF features.err # "none" THEN features
            ELSE Ok(<<features.val, target_series>>)
    ELSE IF descr_file_name = PyNone
    THEN Ok(<<df>>)
    ELSE Ok(<<df, descr>>)

\* the four return statements (lines 144, 150, 157, 163)
ReturnValue ==
    IF separate_target
    THEN LET features == Drop(df, target)
         IN IF features.err # "none" THEN features
            ELSE IF descr_file_name = PyNone
            THEN Ok(<<features.val, target_series>>)
            ELSE Ok(<<features.val, target_series, descr>>)
    ELSE IF descr_file_name = PyNone
    THEN Ok(<<df>>)
    ELSE Ok(<<df, descr>>)

Return ==
    /\ pc = "return"
    /\ LET r == ReturnValue
       IN IF r.err # "none"
          THEN Fail("extract", r.err)
          ELSE /\ pc' = "done"
               /\ result' = r.val
               /\ UNCHANGED <<error, log>>
    /\ UNCHANGED <<args, data_path, dialect, df, target_series, descr, sniff_encoding>>

Next ==
    \/ ReturnResource
    \/ InferDialect
    \/ ConvertToDataframe
    \/ ValidateTarget
    \/ ExtractTarget
    \/ LoadDescr
    \/ Return

Spec == Init /\ [][Next]_vars

(***************************************************************************)
(* Properties                                                              *)
(***************************************************************************)
Finished == pc \in {"done", "failed"}

Last(s) == s[Len(s)]

\* the resolver has run, with this outcome
Resolved == Len(log) >= 1
ResolveOutcome == log[1].outcome

\* the table has been parsed
TableLoaded == Len(log) >= 3 /\ log[3].outcome = "ok"

DescrGiven == descr_file_name.kind # "None"

\* no description is asked for, or the one asked for can be read
DescrLoadable ==
    DescrGiven =>
        /\ descr_module.str \in InstalledModules
        /\ <<descr_module.str, descr_file_name.str>> \in RegularFiles

\* the target names a column, or is a position inside the table
DenotesColumn ==
    \/ target.kind = "str" /\ target.str \in Range(df.columns)
    \/ target.kind = "int" /\ 0 <= target.int /\ target.int < Len(df.columns)

\* the exceptions by which the code reports a target that is no column
TargetNotFound == {"AssertionError", "KeyError"}

\* C1: a successful call returns exactly the shape that (separate_target,
\* descr_file_name is not None) selects -- table; table, description;
\* features, target; features, target, description -- and a call that has
\* not succeeded has returned nothing.
ReturnShape ==
    /\ pc # "done" => result = << >>
    /\ pc = "done" =>
         LET kinds == [i \in 1..Len(result) |-> result[i].kind]
         IN kinds = (IF separate_target THEN <<"DataFrame", "Series">> ELSE <<"DataFrame">>)
                    \o (IF DescrGiven THEN <<"str">> ELSE << >>)

ReturnShapeWitness ==
    /\ pc = "done"
    /\ separate_target
    /\ DescrGiven
    /\ Len(result) = 3

\* C2 (as claimed): with a target name that is no column of the table the
\* call ends in the target-not-found error and returns nothing, whether or
\* not separate_target is set.
UnknownNameFails ==
    (/\ TableLoaded
     /\ DescrLoadable
     /\ Finished
     /\ target.kind = "str"
     /\ target.str \notin Range(df.columns))
    => (/\ pc = "failed"
        /\ error \in TargetNotFound
        /\ Last(log).step \in {"validate", "extract"}
        /\ result = << >>)

\* C3 (as claimed): with separate_target and a position 0 <= i < column
\* count as target, the call succeeds and returns the features and target
\* that the name of column i gives.
IndexEqualsName ==
    (/\ TableLoaded
     /\ Finished
     /\ separate_target
     /\ ~DescrGiven
     /\ target.kind = "int"
     /\ 0 <= target.int
     /\ target.int < Len(df.columns))
    => (/\ pc = "done"
        /\ LET name == PyStr(df.columns[target.int + 1])
           IN result = <<Drop(df, name).val, Loc(df, name).val>>)

\* C4 (as claimed): with a position outside 0 .. column count - 1 as target
\* the call fails on the target and returns nothing, whether or not
\* separate_target is set.
IndexOutOfRangeFails ==
    (/\ TableLoaded
     /\ DescrLoadable
     /\ Finished
     /\ target.kind = "int"
     /\ (target.int < 0 \/ target.int >= Len(df.columns)))
    => (/\ pc = "failed"
        /\ Last(log).step \in {"validate", "extract"}
        /\ result = << >>)

\* C5: with separate_target and a target name that is a column, the
\* features are the table's columns without the target, in the table's
\* order and with the table's cell values, and the target series is the
\* target column, element for element.
SplitPreservesTable ==
    (pc = "done" /\ separate_target /\ target.kind = "str") =>
        LET features == result[1]
            series == result[2]
            at(label) == CHOOSE k \in 1..Len(df.columns) : df.columns[k] = label
        IN /\ target.str \in Range(df.columns)
           /\ features.columns = SelectSeq(df.columns, LAMBDA c : c # target.str)
           /\ Len(features.rows) = Len(df.rows)
           /\ \A i \in 1..Len(df.rows) :
                /\ Len(features.rows[i]) = Len(features.columns)
                /\ \A j \in 1..Len(features.columns) :
                      features.rows[i][j] = df.rows[i][at(features.columns[j])]
           /\ series.name = target.str
           /\ Len(series.values) = Len(df.rows)
           /\ \A i \in 1..Len(df.rows) : series.values[i] = df.rows[i][at(target.str)]

SplitPreservesTableWitness ==
    /\ pc = "done"
    /\ separate_target
    /\ target = PyStr(<<"s">>)
    /\ Len(df.columns) = 3
    /\ result[1].columns = << <<"t", "v">>, <<"r">> >>
    /\ result[2].values = << <<"1">>, <<"4">> >>

ResolvedHandleIsFile ==
    Resolved =>
        LET path == <<data_module.str, data_file_name.str>>
            typesOk == data_module.kind \in {"str", "module"} /\ data_file_name.kind = "str"
            found == data_module.kind = "module" \/ data_module.str \in InstalledModules
        IN /\ ResolveOutcome = "ok" =>
                (data_path = path /\ Exists(path) /\ ~IsDir(path) /\ IsFile(path))
           /\ (typesOk /\ found /\ IsFile(path)) => ResolveOutcome = "ok"

ResolvedHandleIsFileWitness ==
    /\ Resolved
    /\ ResolveOutcome = "ok"
    /\ data_module = PyModule(DATA_MODULE)
    /\ data_path = <<DATA_MODULE, "iris.csv">>

\* C8 (as claimed): with separate_target and a target that denotes no
\* column, the call fails with the error the name check of lines 136-138
\* raises, and returns nothing.
MissingTargetSameSignal ==
    (TableLoaded /\ Finished /\ separate_target /\ ~DenotesColumn)
    => (pc = "failed" /\ error = "AssertionError" /\ result = << >>)

\* C8 (amended): with separate_target and a target that denotes no column,
\* the call fails on the target and returns nothing; the error is the
\* AssertionError of the name check for a non-empty name, and the KeyError
\* of the extraction for a target that is None, empty or a position.
MissingTargetFails ==
    (TableLoaded /\ Finished /\ separate_target /\ ~DenotesColumn)
    => (/\ pc = "failed"
        /\ result = << >>
        /\ IF target.kind = "str" /\ target.str # << >>
           THEN error = "AssertionError" /\ Last(log).step = "validate"
           ELSE error = "KeyError" /\ Last(log).step = "extract")

MissingTargetFailsWitness ==
    /\ TableLoaded
    /\ pc = "failed"
    /\ separate_target
    /\ target = PyStr(<< >>)
    /\ error = "KeyError"

\* the steps a call with these flags runs, in program order
ExpectedSteps ==
    <<"resolve", "infer", "parse", "validate">>
        \o (IF separate_target THEN <<"extract">> ELSE << >>)
        \o (IF DescrGiven THEN <<"descr">> ELSE << >>)

\* C9: the steps run in the order resolve, infer dialect, parse, validate
\* target, extract target, load description; the first failing step ends
\* the call with its own error, no step is run twice or after a failure,
\* and the description is read only when every step before it succeeded.
StepsInOrder ==
    /\ Len(log) <= Len(ExpectedSteps)
    /\ \A i \in 1..Len(log) : log[i].step = ExpectedSteps[i]
    /\ \A i \in 1..(Len(log) - 1) : log[i].outcome = "ok"
    /\ pc = "failed" <=> (log # << >> /\ Last(log).outcome # "ok")
    /\ pc = "failed" => error = Last(log).outcome
    /\ pc # "failed" => error = "none"
    /\ pc = "done" => Len(log) = Len(ExpectedSteps)
    /\ descr # EmptyText => (Last(log) = Entry("descr", "ok") /\ Len(log) = Len(ExpectedSteps))

StepsInOrderWitness ==
    /\ pc = "failed"
    /\ DescrGiven
    /\ Len(log) = 5
    /\ Last(log) = Entry("extract", "KeyError")
    /\ descr = EmptyText

\* C10 (as claimed): the dialect sniffer opens the data file with the
\* encoding the caller gave, the one the table is then parsed with.
SnifferUsesEncoding ==
    sniff_encoding # "none" => sniff_encoding = encoding

====
